---- MODULE Spec2Model ----
(***************************************************************************)
(* A model of the crdsrt card library (src/src/card.rs, src/src/lib.rs):   *)
(* the CardValue / CardSuit / Card types with their derived ordering, the  *)
(* value and suit readers, the single-card parser and the list parsers.    *)
(*                                                                         *)
(* A text (&str) is a sequence of characters.  A character is a one-letter *)
(* string, except "EACUTE", which stands for U+00E9, a character whose     *)
(* UTF-8 encoding is two bytes long: slices such as &s[1..] take BYTE      *)
(* offsets and panic when the offset is past the end or inside a           *)
(* character.                                                              *)
(***************************************************************************)
EXTENDS Integers, Sequences, FiniteSets, TLC

(***************************************************************************)
(* Bounds of the model.                                                    *)
(***************************************************************************)
\* longest free text handed to read_value, read_suit and parse
MaxTextLen == 2
\* longest list-parser input, counted in fragments of ListFrags
MaxFrags == 4

(***************************************************************************)
(* enum CardValue and enum CardSuit: a variant is its discriminant, which  *)
(* is what the derived Ord compares.                                       *)
(***************************************************************************)
VA == 0
V2 == 1
V3 == 2
V4 == 3
V5 == 4
V6 == 5
V7 == 6
V8 == 7
V9 == 8
VT == 9
VJ == 10
VQ == 11
VK == 12

CardValue == {VA, V2, V3, V4, V5, V6, V7, V8, V9, VT, VJ, VQ, VK}

Clubs == 0
Hearts == 1
Spades == 2
Diamonds == 3

CardSuit == {Clubs, Hearts, Spades, Diamonds}

\* struct Card { suit, val }
Card == [suit : CardSuit, val : CardValue]

\* Card::new(val, suit)
new(val, suit) == [suit |-> suit, val |-> val]

(***************************************************************************)
(* #[derive(Ord)]: enums compare by discriminant, a struct compares its    *)
(* fields lexicographically in declaration order (suit, then val).         *)
(***************************************************************************)
CmpDiscriminant(x, y) == IF x < y THEN "Less" ELSE IF x = y THEN "Equal" ELSE "Greater"

\* as CardCmp, had struct Card declared val before suit
CardCmp_ValFirst(a, b) ==
    IF CmpDiscriminant(a.val, b.val) # "Equal"
    THEN CmpDiscriminant(a.val, b.val)
    ELSE CmpDiscriminant(a.suit, b.suit)

CardCmp(a, b) ==
    IF CmpDiscriminant(a.suit, b.suit) # "Equal"
    THEN CmpDiscriminant(a.suit, b.suit)
    ELSE CmpDiscriminant(a.val, b.val)

(***************************************************************************)
(* Texts.                                                                  *)
(***************************************************************************)
ValueChars == {"A", "2", "3", "4", "5", "6", "7", "8", "9", "T", "J", "Q", "K"}
SuitChars == {"S", "H", "D", "C"}
Alphabet == ValueChars \cup SuitChars \cup {"1", "0", " ", ",", "a", "s", "EACUTE"}

\* the number of bytes of the UTF-8 encoding of a character
Utf8Len(c) == IF c = "EACUTE" THEN 2 ELSE 1

\* char::is_whitespace, on the characters of Alphabet
IsWhitespace(c) == c = " "

\* all texts of at most n characters
TextsUpTo(n) == UNION {[1..k -> Alphabet] : k \in 0..n}

Concat(s, t) == s \o t

(***************************************************************************)
(* Result values: Ok(..), Err(ErrorKind(text)), or a panic of the thread.  *)
(***************************************************************************)
Err(kind, text) == [tag |-> "Err", kind |-> kind, text |-> text]
Panic == [tag |-> "Panic"]

(***************************************************************************)
(* &s[n..]: the text from byte offset n on.  Panics when n is past the end *)
(* of s or is not on a character boundary.                                 *)
(***************************************************************************)
RECURSIVE SliceFrom(_, _)
SliceFrom(s, n) ==
    IF n = 0 THEN [tag |-> "Ok", text |-> s]
    ELSE IF s = <<>> THEN Panic
    ELSE IF Utf8Len(Head(s)) > n THEN Panic
    ELSE SliceFrom(Tail(s), n - Utf8Len(Head(s)))

\* chars.next() on the i-th call: Some(c) or None
NextChar(s, i) == IF i <= Len(s) THEN [some |-> TRUE, c |-> s[i]] ELSE [some |-> FALSE]

IsSome(o, c) == o.some /\ o.c = c

\* as ReadValueMatch, taking a '1' for Ten whatever follows it
ReadValueMatch_AnyAfterOne(s) ==
    LET c1 == NextChar(s, 1)
    IN  IF c1.some /\ c1.c \in ValueChars \cup {"1"}
        THEN [some |-> TRUE,
              v |-> CASE c1.c = "A" -> VA [] c1.c = "2" -> V2 [] c1.c = "3" -> V3
                      [] c1.c = "4" -> V4 [] c1.c = "5" -> V5 [] c1.c = "6" -> V6
                      [] c1.c = "7" -> V7 [] c1.c = "8" -> V8 [] c1.c = "9" -> V9
                      [] c1.c = "J" -> VJ [] c1.c = "Q" -> VQ [] c1.c = "K" -> VK
                      [] OTHER -> VT,
              start |-> IF c1.c = "1" /\ IsSome(NextChar(s, 2), "0") THEN 2 ELSE 1]
        ELSE [some |-> FALSE, start |-> 1]

(***************************************************************************)
(* fn read_value(s)                                                        *)
(***************************************************************************)
ReadValueMatch(s) ==
    LET c1 == NextChar(s, 1)
    IN  CASE IsSome(c1, "A") -> [some |-> TRUE, v |-> VA, start |-> 1]
          [] IsSome(c1, "2") -> [some |-> TRUE, v |-> V2, start |-> 1]
          [] IsSome(c1, "3") -> [some |-> TRUE, v |-> V3, start |-> 1]
          [] IsSome(c1, "4") -> [some |-> TRUE, v |-> V4, start |-> 1]
          [] IsSome(c1, "5") -> [some |-> TRUE, v |-> V5, start |-> 1]
          [] IsSome(c1, "6") -> [some |-> TRUE, v |-> V6, start |-> 1]
          [] IsSome(c1, "7") -> [some |-> TRUE, v |-> V7, start |-> 1]
          [] IsSome(c1, "8") -> [some |-> TRUE, v |-> V8, start |-> 1]
          [] IsSome(c1, "9") -> [some |-> TRUE, v |-> V9, start |-> 1]
          [] IsSome(c1, "T") -> [some |-> TRUE, v |-> VT, start |-> 1]
          [] IsSome(c1, "J") -> [some |-> TRUE, v |-> VJ, start |-> 1]
          [] IsSome(c1, "Q") -> [some |-> TRUE, v |-> VQ, start |-> 1]
          [] IsSome(c1, "K") -> [some |-> TRUE, v |-> VK, start |-> 1]
          [] IsSome(c1, "1") ->
                IF IsSome(NextChar(s, 2), "0")
                THEN [some |-> TRUE, v |-> VT, start |-> 2]
                ELSE [some |-> FALSE, start |-> 1]
          [] OTHER -> [some |-> FALSE, start |-> 1]

\* as read_value, slicing &s[start..] before looking at the match
read_value_EagerSlice(s) ==
    LET m == ReadValueMatch(s)
        rest == SliceFrom(s, m.start)
    IN  IF rest = Panic THEN Panic
        ELSE IF m.some THEN [tag |-> "Ok", val |-> m.v, rest |-> rest.text]
        ELSE Err("UnrecognizedCardValue", s)

read_value(s) ==
    LET m == ReadValueMatch(s)
    IN  IF m.some
        THEN LET rest == SliceFrom(s, m.start)
             IN  IF rest = Panic THEN Panic
                 ELSE [tag |-> "Ok", val |-> m.v, rest |-> rest.text]
        ELSE Err("UnrecognizedCardValue", s)

(***************************************************************************)
(* fn read_suit(str)                                                       *)
(***************************************************************************)
ReadSuitMatch(str) ==
    LET c1 == NextChar(str, 1)
    IN  CASE IsSome(c1, "S") -> [some |-> TRUE, u |-> Spades]
          [] IsSome(c1, "H") -> [some |-> TRUE, u |-> Hearts]
          [] IsSome(c1, "D") -> [some |-> TRUE, u |-> Diamonds]
          [] IsSome(c1, "C") -> [some |-> TRUE, u |-> Clubs]
          [] OTHER -> [some |-> FALSE]

\* as read_suit, its error carrying the offending character only
read_suit_ErrFirstChar(str) ==
    LET m == ReadSuitMatch(str)
    IN  IF m.some
        THEN LET rest == SliceFrom(str, 1)
             IN  IF rest = Panic THEN Panic
                 ELSE [tag |-> "Ok", suit |-> m.u, rest |-> rest.text]
        ELSE Err("UnrecognizedSuit", IF str = <<>> THEN <<>> ELSE <<Head(str)>>)

read_suit(str) ==
    LET m == ReadSuitMatch(str)
    IN  IF m.some
        THEN LET rest == SliceFrom(str, 1)
             IN  IF rest = Panic THEN Panic
                 ELSE [tag |-> "Ok", suit |-> m.u, rest |-> rest.text]
        ELSE Err("UnrecognizedSuit", str)

\* as parse, returning the remainder of the value reader
parse_RestAfterValue(s) ==
    LET rv == read_value(s)
    IN  IF rv.tag # "Ok" THEN rv
        ELSE LET rs == read_suit(rv.rest)
             IN  IF rs.tag # "Ok" THEN rs
                 ELSE [tag |-> "Ok", card |-> new(rv.val, rs.suit), rest |-> rv.rest]

(***************************************************************************)
(* pub fn parse(s): the value, then the suit; `?` returns the first error  *)
(* as it is.                                                               *)
(***************************************************************************)
parse(s) ==
    LET rv == read_value(s)
    IN  IF rv.tag # "Ok" THEN rv
        ELSE LET rs == read_suit(rv.rest)
             IN  IF rs.tag # "Ok" THEN rs
                 ELSE [tag |-> "Ok", card |-> new(rv.val, rs.suit), rest |-> rs.rest]

(***************************************************************************)
(* s.split(pat): the pieces between the non-overlapping matches of pat,    *)
(* found left to right; n matches give n + 1 pieces.  The empty pattern    *)
(* matches at every character boundary, both ends included.                *)
(***************************************************************************)
MatchAt(s, i, pat) ==
    /\ i + Len(pat) - 1 <= Len(s)
    /\ SubSeq(s, i, i + Len(pat) - 1) = pat

RECURSIVE SplitFrom(_, _, _, _)
SplitFrom(s, pat, i, start) ==
    IF i + Len(pat) - 1 > Len(s) THEN << SubSeq(s, start, Len(s)) >>
    ELSE IF MatchAt(s, i, pat)
         THEN << SubSeq(s, start, i - 1) >> \o SplitFrom(s, pat, i + Len(pat), i + Len(pat))
         ELSE SplitFrom(s, pat, i + 1, start)

\* as Split, dropping the empty pieces
Split_SkipEmpty(s, pat) ==
    LET all == IF pat = <<>>
               THEN << <<>> >> \o [i \in 1..Len(s) |-> << s[i] >>] \o << <<>> >>
               ELSE SplitFrom(s, pat, 1, 1)
    IN  SelectSeq(all, LAMBDA piece : piece # <<>>)

Split(s, pat) ==
    IF pat = <<>>
    THEN << <<>> >> \o [i \in 1..Len(s) |-> << s[i] >>] \o << <<>> >>
    ELSE SplitFrom(s, pat, 1, 1)

(***************************************************************************)
(* piece.trim(): the piece without its leading and trailing whitespace.    *)
(***************************************************************************)
RECURSIVE trim_start(_)
trim_start(s) ==
    IF s # <<>> /\ IsWhitespace(Head(s)) THEN trim_start(Tail(s)) ELSE s

RECURSIVE trim_end(_)
trim_end(s) ==
    IF s # <<>> /\ IsWhitespace(s[Len(s)]) THEN trim_end(SubSeq(s, 1, Len(s) - 1)) ELSE s

\* as trim, leaving the trailing whitespace
trim_StartOnly(s) == trim_start(s)

trim(s) == trim_end(trim_start(s))

\* the two .map closures of parse_vec_pat, applied to one piece
MapPiece(piece) == parse(trim(piece))

\* as Push, putting the card in front
Push_Front(acc, crd) == <<crd>> \o acc

(***************************************************************************)
(* The closure given to fold_results: |mut vec, crd| { vec.push(crd.0) }.  *)
(***************************************************************************)
Push(acc, crd) == Append(acc, crd)

\* as FoldItem, dropping an Err item and going on
FoldItem_SkipErr(acc, item) ==
    IF item.tag = "Ok"
    THEN [continue |-> TRUE, vec |-> Push(acc, item.card)]
    ELSE [continue |-> TRUE, vec |-> acc]

(***************************************************************************)
(* One step of fold_results on the next item of the iterator: an Ok item   *)
(* goes to the closure and the fold goes on; an Err item ends the fold and *)
(* is its value, as it is.                                                 *)
(***************************************************************************)
FoldItem(acc, item) ==
    IF item.tag = "Ok"
    THEN [continue |-> TRUE, vec |-> Push(acc, item.card)]
    ELSE [continue |-> FALSE, result |-> item]

(***************************************************************************)
(* parse_vec_pat as a function of its arguments.                           *)
(***************************************************************************)
RECURSIVE fold_results(_, _)
fold_results(ps, acc) ==
    IF ps = <<>> THEN [tag |-> "Ok", cards |-> acc]
    ELSE LET st == FoldItem(acc, MapPiece(Head(ps)))
         IN  IF st.continue THEN fold_results(Tail(ps), st.vec) ELSE st.result

parse_vec_pat(s, p) == fold_results(Split(s, p), <<>>)

parse_vec(s) == parse_vec_pat(s, <<",">>)

(***************************************************************************)
(* The inputs of the model.                                                *)
(***************************************************************************)
ValueTokens == {<<c>> : c \in ValueChars} \cup {<<"1", "0">>}

\* texts for parse: the free texts, and a value token followed by a free text
ParseTexts == TextsUpTo(MaxTextLen) \cup
              {Concat(v, t) : v \in ValueTokens, t \in TextsUpTo(MaxTextLen)}

ListFrags == {<<"A", "S">>, <<"1", "0", "H">>, <<",">>, <<" ">>, <<"A">>, <<"S">>}

RECURSIVE Flatten(_)
Flatten(fs) == IF fs = <<>> THEN <<>> ELSE Head(fs) \o Flatten(Tail(fs))

ListTexts == {Flatten(fs) : fs \in UNION {[1..k -> ListFrags] : k \in 0..MaxFrags}}

Pats == {<<",">>, <<" ">>, <<",", ",">>, <<>>}

NoResult == [tag |-> "None"]

(***************************************************************************)
(* The state: the operation called and its arguments, the position in it,  *)
(* the iteration of the list parser, and the value returned.               *)
(***************************************************************************)
VARIABLES op, input, pat, args, pc, pieces, idx, vec, cards, result

vars == <<op, input, pat, args, pc, pieces, idx, vec, cards, result>>

InitRest ==
    /\ pc = "ready"
    /\ pieces = <<>>
    /\ idx = 1
    /\ vec = <<>>
    /\ cards = <<>>
    /\ result = NoResult

Init ==
    /\ \/ /\ op \in {"read_value", "read_suit"}
          /\ input \in TextsUpTo(MaxTextLen)
          /\ pat = <<>>
          /\ args = <<>>
       \/ /\ op = "parse"
          /\ input \in ParseTexts
          /\ pat = <<>>
          /\ args = <<>>
       \/ /\ op = "parse_vec"
          /\ input \in ListTexts
          /\ pat = <<>>
          /\ args = <<>>
       \/ /\ op = "parse_vec_pat"
          /\ input \in ListTexts
          /\ pat \in Pats
          /\ args = <<>>
       \/ /\ op = "cmp"
          /\ input = <<>>
          /\ pat = <<>>
          /\ args \in CardValue \X CardSuit \X CardValue \X CardSuit
    /\ InitRest

Return(r) ==
    /\ result' = r
    /\ pc' = "done"

CallReadValue ==
    /\ pc = "ready" /\ op = "read_value"
    /\ Return(read_value(input))
    /\ UNCHANGED <<op, input, pat, args, pieces, idx, vec, cards>>

CallReadSuit ==
    /\ pc = "ready" /\ op = "read_suit"
    /\ Return(read_suit(input))
    /\ UNCHANGED <<op, input, pat, args, pieces, idx, vec, cards>>

CallParse ==
    /\ pc = "ready" /\ op = "parse"
    /\ Return(parse(input))
    /\ UNCHANGED <<op, input, pat, args, pieces, idx, vec, cards>>

\* parse_vec_pat(s, pat): the iterator chain is built, nothing is parsed yet
CallParseVecPat ==
    /\ pc = "ready" /\ op = "parse_vec_pat"
    /\ pieces' = Split(input, pat)
    /\ pc' = "fold"
    /\ UNCHANGED <<op, input, pat, args, idx, vec, cards, result>>

\* parse_vec(s) is parse_vec_pat(s, ",")
CallParseVec ==
    /\ pc = "ready" /\ op = "parse_vec"
    /\ pat' = <<",">>
    /\ pieces' = Split(input, pat')
    /\ pc' = "fold"
    /\ UNCHANGED <<op, input, args, idx, vec, cards, result>>

\* fold_results pulls the next item and goes on
FoldPush ==
    /\ pc = "fold" /\ idx <= Len(pieces)
    /\ LET st == FoldItem(vec, MapPiece(pieces[idx]))
       IN  /\ st.continue
           /\ vec' = st.vec
    /\ idx' = idx + 1
    /\ UNCHANGED <<op, input, pat, args, pc, pieces, cards, result>>

\* fold_results pulls the next item and ends with it
FoldFail ==
    /\ pc = "fold" /\ idx <= Len(pieces)
    /\ LET st == FoldItem(vec, MapPiece(pieces[idx]))
       IN  /\ ~st.continue
           /\ Return(st.result)
    /\ UNCHANGED <<op, input, pat, args, pieces, idx, vec, cards>>

\* the iterator is exhausted: Ok(vec)
FoldEnd ==
    /\ pc = "fold" /\ idx > Len(pieces)
    /\ Return([tag |-> "Ok", cards |-> vec])
    /\ UNCHANGED <<op, input, pat, args, pieces, idx, vec, cards>>

\* two cards are built with Card::new and compared
CallCmp ==
    /\ pc = "ready" /\ op = "cmp"
    /\ cards' = << new(args[1], args[2]), new(args[3], args[4]) >>
    /\ Return([tag |-> "Ordering", ord |-> CardCmp(cards'[1], cards'[2])])
    /\ UNCHANGED <<op, input, pat, args, pieces, idx, vec>>

Next ==
    \/ CallReadValue
    \/ CallReadSuit
    \/ CallParse
    \/ CallParseVecPat
    \/ CallParseVec
    \/ FoldPush
    \/ FoldFail
    \/ FoldEnd
    \/ CallCmp

Spec == Init /\ [][Next]_vars

TypeOK ==
    /\ pc \in {"ready", "fold", "done"}
    /\ result.tag \in {"None", "Ok", "Err", "Panic", "Ordering"}

(***************************************************************************)
(* The vocabulary of the properties: the grammar as the specification      *)
(* states it, independent of the readers' code.                            *)
(***************************************************************************)
Done == pc = "done"

ListOp == op \in {"parse_vec", "parse_vec_pat"}

IsPrefix(p, s) == Len(p) <= Len(s) /\ SubSeq(s, 1, Len(p)) = p

DropFront(s, n) == SubSeq(s, n + 1, Len(s))

\* the rank each value token stands for
TokenValue(v) ==
    CASE v = <<"A">> -> VA [] v = <<"2">> -> V2 [] v = <<"3">> -> V3
      [] v = <<"4">> -> V4 [] v = <<"5">> -> V5 [] v = <<"6">> -> V6
      [] v = <<"7">> -> V7 [] v = <<"8">> -> V8 [] v = <<"9">> -> V9
      [] v = <<"T">> -> VT [] v = <<"1", "0">> -> VT
      [] v = <<"J">> -> VJ [] v = <<"Q">> -> VQ [] v = <<"K">> -> VK

\* the suit each suit character stands for
TokenSuit(u) ==
    CASE u = "S" -> Spades [] u = "H" -> Hearts [] u = "D" -> Diamonds [] u = "C" -> Clubs

StartsWithValueToken(s) == \E v \in ValueTokens : IsPrefix(v, s)

\* the number of bytes of a text
RECURSIVE ByteLen(_)
ByteLen(s) == IF s = <<>> THEN 0 ELSE Utf8Len(Head(s)) + ByteLen(Tail(s))

(***************************************************************************)
(* C2.  For every value token v, suit token u and text r,                  *)
(* Card::parse(v ++ u ++ r) succeeds with (Card(decode v, decode u), r):   *)
(* exactly the value token and the one suit character are consumed.        *)
(***************************************************************************)
C2_ParseConsumesExactlyTheCard ==
    (Done /\ op = "parse") =>
        \A v \in ValueTokens, u \in SuitChars :
            IsPrefix(v \o <<u>>, input) =>
                result = [tag |-> "Ok",
                          card |-> [suit |-> TokenSuit(u), val |-> TokenValue(v)],
                          rest |-> DropFront(input, Len(v) + 1)]

\* "10", a suit and a remainder that is not empty have been parsed
C2_Witness ==
    /\ Done /\ op = "parse"
    /\ IsPrefix(<<"1", "0", "S">>, input)
    /\ Len(input) > 3
    /\ result.tag = "Ok"
    /\ result.rest = DropFront(input, 3)

(***************************************************************************)
(* C3.  The value reader succeeds exactly when its input starts with one   *)
(* of the 14 value tokens; it then returns the token's rank ("T" and "10"  *)
(* both Ten) and the text after the token (1 character consumed, 2 for     *)
(* "10"); every other input, "" and "1" not followed by "0" included, is   *)
(* an error.                                                               *)
(***************************************************************************)
C3_ValueReaderAcceptsExactlyTheTokens ==
    (Done /\ op = "read_value") =>
        /\ result.tag = "Ok" <=> StartsWithValueToken(input)
        /\ result.tag # "Ok" => result.tag = "Err"
        /\ \A v \in ValueTokens :
              IsPrefix(v, input) =>
                  result = [tag |-> "Ok", val |-> TokenValue(v),
                            rest |-> DropFront(input, Len(v))]

\* the value reader has read "10", with nothing after it, as Ten
C3_Witness ==
    /\ Done /\ op = "read_value"
    /\ input = <<"1", "0">>
    /\ result.tag = "Ok"
    /\ result.val = VT
    /\ result.rest = <<>>

(***************************************************************************)
(* C4.  Card::parse returns the first error as it is: without a value      *)
(* token at the front, UnrecognizedCardValue carrying the whole input;     *)
(* with a value token that no suit character follows, UnrecognizedSuit     *)
(* carrying the input without the value token.                             *)
(***************************************************************************)
C4_ParseReturnsTheFirstError ==
    (Done /\ op = "parse") =>
        /\ ~StartsWithValueToken(input) =>
              result = [tag |-> "Err", kind |-> "UnrecognizedCardValue", text |-> input]
        /\ \A v \in ValueTokens :
              (/\ IsPrefix(v, input)
               /\ \/ Len(input) = Len(v)
                  \/ input[Len(v) + 1] \notin SuitChars) =>
                  result = [tag |-> "Err", kind |-> "UnrecognizedSuit",
                            text |-> DropFront(input, Len(v))]

\* a value token followed by two characters, the first no suit, has been refused
C4_Witness ==
    /\ Done /\ op = "parse"
    /\ IsPrefix(<<"1", "0">>, input)
    /\ Len(input) = 4
    /\ result.tag = "Err"
    /\ result.kind = "UnrecognizedSuit"
    /\ Len(result.text) = 2

(***************************************************************************)
(* C9.  Card comparison is a strict total order, lexicographic with the    *)
(* suit first: Clubs < Hearts < Spades < Diamonds, then                    *)
(* Ace < 2 < ... < 9 < Ten < Jack < Queen < King; two cards are equal iff  *)
(* they have the same suit and the same value; Card::new(val, suit) puts   *)
(* each argument in its own field.                                         *)
(***************************************************************************)
SuitOrder == <<Clubs, Hearts, Spades, Diamonds>>

ValueOrder == <<VA, V2, V3, V4, V5, V6, V7, V8, V9, VT, VJ, VQ, VK>>

RankIn(order, x) == CHOOSE i \in 1..Len(order) : order[i] = x

CardBefore(a, b) ==
    \/ RankIn(SuitOrder, a.suit) < RankIn(SuitOrder, b.suit)
    \/ /\ a.suit = b.suit
       /\ RankIn(ValueOrder, a.val) < RankIn(ValueOrder, b.val)

C9_CardOrderIsSuitThenValue ==
    (Done /\ op = "cmp") =>
        LET a == cards[1]
            b == cards[2]
        IN  /\ a = [suit |-> args[2], val |-> args[1]]
            /\ b = [suit |-> args[4], val |-> args[3]]
            /\ result.ord = "Less" <=> CardBefore(a, b)
            /\ result.ord = "Greater" <=> CardBefore(b, a)
            /\ result.ord = "Equal" <=> (args[1] = args[3] /\ args[2] = args[4])
            /\ result.ord = "Equal" <=> a = b
            \* antisymmetry and transitivity of the comparison itself
            /\ CardCmp(a, b) = "Less" <=> CardCmp(b, a) = "Greater"
            /\ \A c \in Card :
                  (CardCmp(a, b) = "Less" /\ CardCmp(b, c) = "Less") => CardCmp(a, c) = "Less"

\* a card of a lower suit and a higher value has compared smaller
C9_Witness ==
    /\ Done /\ op = "cmp"
    /\ cards[1] = new(VK, Clubs)
    /\ cards[2] = new(VA, Diamonds)
    /\ result.ord = "Less"

(***************************************************************************)
(* C10.  No input makes the parsers panic: every call returns a success or *)
(* one of the two error kinds, and the byte offset at which read_value and *)
(* read_suit slice their text is within it whenever the slice is taken.    *)
(***************************************************************************)
ErrorKinds == {"UnrecognizedCardValue", "UnrecognizedSuit"}

\* the slices a call of parse(s) takes stay within the text sliced
SlicesWithin(s) ==
    LET m == ReadValueMatch(s)
    IN  m.some =>
            /\ m.start <= ByteLen(s)
            /\ SliceFrom(s, m.start) # Panic
            /\ ReadSuitMatch(SliceFrom(s, m.start).text).some =>
                  /\ 1 <= ByteLen(SliceFrom(s, m.start).text)
                  /\ SliceFrom(SliceFrom(s, m.start).text, 1) # Panic

C10_NoPanic ==
    /\ result.tag # "Panic"
    /\ (Done /\ op # "cmp") =>
          /\ result.tag \in {"Ok", "Err"}
          /\ result.tag = "Err" => result.kind \in ErrorKinds
    /\ op \in {"read_value", "parse"} => SlicesWithin(input)
    /\ op = "read_suit" =>
          (ReadSuitMatch(input).some => SliceFrom(input, 1) # Panic)
    /\ \A i \in 1..Len(pieces) : SlicesWithin(trim(pieces[i]))

\* "10" with nothing after it has been parsed: the suit reader got the empty text
C10_Witness ==
    /\ Done /\ op = "parse"
    /\ input = <<"1", "0">>
    /\ result = [tag |-> "Err", kind |-> "UnrecognizedSuit", text |-> <<>>]

(***************************************************************************)
(* The vocabulary of the list parser's properties.                         *)
(***************************************************************************)
\* the occurrences of a non-empty delimiter, counted left to right without overlap
RECURSIVE CountDelims(_, _, _)
CountDelims(s, d, i) ==
    IF i + Len(d) - 1 > Len(s) THEN 0
    ELSE IF SubSeq(s, i, i + Len(d) - 1) = d THEN 1 + CountDelims(s, d, i + Len(d))
    ELSE CountDelims(s, d, i + 1)

\* the pieces put together again, the delimiter between them
RECURSIVE Join(_, _)
Join(ps, d) ==
    IF ps = <<>> THEN <<>>
    ELSE IF Len(ps) = 1 THEN ps[1]
    ELSE ps[1] \o d \o Join(Tail(ps), d)

\* what Card::parse gives for the i-th piece, trimmed
PieceResult(i) == parse(trim(pieces[i]))

PieceFails(i) == PieceResult(i).tag # "Ok"

SomePieceFails == \E i \in 1..Len(pieces) : PieceFails(i)

FirstFailing == CHOOSE k \in 1..Len(pieces) : PieceFails(k) /\ \A j \in 1..(k - 1) : ~PieceFails(j)

\* a card token followed by at least one more character
HasTrailingCharacters(s) ==
    \E v \in ValueTokens, u \in SuitChars : IsPrefix(v \o <<u>>, s) /\ Len(s) > Len(v) + 1

\* the number of characters of the input before its i-th piece
RECURSIVE OffsetOf(_)
OffsetOf(i) == IF i = 1 THEN 0 ELSE OffsetOf(i - 1) + Len(pieces[i - 1]) + Len(pat)

InsertAt(s, n, c) == SubSeq(s, 1, n) \o <<c>> \o SubSeq(s, n + 1, Len(s))

RemoveAt(s, n) == SubSeq(s, 1, n - 1) \o SubSeq(s, n + 1, Len(s))

\* the input with one more whitespace at the start or at the end of a piece
Padded ==
    {InsertAt(input, OffsetOf(i), " ") : i \in 1..Len(pieces)} \cup
    {InsertAt(input, OffsetOf(i) + Len(pieces[i]), " ") : i \in 1..Len(pieces)}

\* the input with one whitespace less at the start or at the end of a piece
Unpadded ==
    {RemoveAt(input, OffsetOf(i) + 1) :
        i \in {j \in 1..Len(pieces) : pieces[j] # <<>> /\ IsWhitespace(Head(pieces[j]))}} \cup
    {RemoveAt(input, OffsetOf(i) + Len(pieces[i])) :
        i \in {j \in 1..Len(pieces) : pieces[j] # <<>> /\ IsWhitespace(pieces[j][Len(pieces[j])])}}

(***************************************************************************)
(* C1.  The list parsers reject a piece that has characters left after its *)
(* card token: when some trimmed piece is a card token followed by one or  *)
(* more characters, the list parse returns an error.                       *)
(***************************************************************************)
C1_ListParserRejectsTrailingCharacters ==
    (Done /\ ListOp) =>
        ((\E i \in 1..Len(pieces) : HasTrailingCharacters(trim(pieces[i]))) =>
            result.tag = "Err")

(***************************************************************************)
(* C5.  A list parse that succeeds returns one card per piece, the i-th    *)
(* card parsed from the i-th piece, so as many cards as there are          *)
(* delimiter occurrences plus one; parse_vec(s) is parse_vec_pat(s, ",").  *)
(***************************************************************************)
C5_OneCardPerPieceInOrder ==
    /\ (Done /\ ListOp /\ result.tag = "Ok") =>
          /\ pat # <<>>
          /\ Len(result.cards) = CountDelims(input, pat, 1) + 1
          /\ Len(result.cards) = Len(pieces)
          /\ Join(pieces, pat) = input
          /\ \A i \in 1..Len(pieces) :
                /\ PieceResult(i).tag = "Ok"
                /\ result.cards[i] = PieceResult(i).card
    /\ (Done /\ op = "parse_vec") =>
          /\ pat = <<",">>
          /\ result = parse_vec_pat(input, <<",">>)

\* two pieces have been parsed to two different cards
C5_Witness ==
    /\ Done /\ ListOp
    /\ input = <<"A", "S", ",", "1", "0", "H">>
    /\ pat = <<",">>
    /\ result = [tag |-> "Ok", cards |-> <<new(VA, Spades), new(VT, Hearts)>>]

(***************************************************************************)
(* C6.  When some piece cannot be parsed, the list parse returns the error *)
(* Card::parse gives for the leftmost such piece, trimmed; it returns no   *)
(* cards; the pieces to the right of that piece are never parsed and have  *)
(* no influence on the result.                                             *)
(***************************************************************************)
C6_FirstFailingPieceDecides ==
    (Done /\ ListOp /\ SomePieceFails) =>
        LET k == FirstFailing
        IN  /\ result = PieceResult(k)
            /\ result.tag = "Err"
            /\ DOMAIN result = {"tag", "kind", "text"}
            \* the fold stopped at piece k, with the k - 1 cards before it
            /\ idx = k
            /\ Len(vec) = k - 1
            \* the input cut after piece k has the same result
            /\ parse_vec_pat(Join(SubSeq(pieces, 1, k), pat), pat) = result

\* a piece that parses, a piece that fails, and a piece that would fail otherwise
C6_Witness ==
    /\ Done /\ ListOp
    /\ pat = <<",">>
    /\ input = <<"A", "S", ",", "A", ",">>
    /\ result = [tag |-> "Err", kind |-> "UnrecognizedSuit", text |-> <<>>]
    /\ idx = 2

(***************************************************************************)
(* C7.  The list parsers skip no empty piece: the pieces, joined by the    *)
(* delimiter, are the input; the empty input, two delimiters in a row, a   *)
(* leading and a trailing delimiter make the parse fail; when the first    *)
(* failing piece is empty or whitespace only, the error is                 *)
(* UnrecognizedCardValue carrying the empty text.                          *)
(***************************************************************************)
C7_EmptyPiecesAreNotSkipped ==
    (Done /\ ListOp) =>
        /\ Join(pieces, pat) = input
        /\ pat # <<>> => Len(pieces) = CountDelims(input, pat, 1) + 1
        /\ (input = <<>> /\ pat # <<>>) => pieces = << <<>> >>
        /\ input = <<>> =>
              result = [tag |-> "Err", kind |-> "UnrecognizedCardValue", text |-> <<>>]
        /\ (\E i \in 1..Len(pieces) : pieces[i] = <<>>) => result.tag = "Err"
        /\ (pat # <<>> /\ (IsPrefix(pat, input) \/ IsPrefix(pat \o pat, DropFront(input, 2)))) =>
              result.tag = "Err"
        /\ Len(pat) = 1 =>
              /\ (input # <<>> /\ input[Len(input)] = pat[1]) => result.tag = "Err"
              /\ \A n \in 1..(Len(input) - 1) :
                    (input[n] = pat[1] /\ input[n + 1] = pat[1]) => result.tag = "Err"
        /\ (SomePieceFails /\ trim(pieces[FirstFailing]) = <<>>) =>
              result = [tag |-> "Err", kind |-> "UnrecognizedCardValue", text |-> <<>>]

\* "AS,,10H": the empty second piece has been parsed and refused
C7_Witness ==
    /\ Done /\ ListOp
    /\ pat = <<",">>
    /\ input = <<"A", "S", ",", ",", "1", "0", "H">>
    /\ idx = 2
    /\ result = [tag |-> "Err", kind |-> "UnrecognizedCardValue", text |-> <<>>]

(***************************************************************************)
(* C8.  Whitespace is tolerated at the piece boundaries only: one more or  *)
(* one less whitespace at the start or the end of a piece leaves the       *)
(* result of the list parse as it is; whitespace between the value token   *)
(* and the suit of a piece makes the list parse fail; Card::parse skips no *)
(* leading whitespace.                                                     *)
(***************************************************************************)
WhitespaceInsideFails ==
    (Done /\ ListOp) =>
        \A i \in 1..Len(pieces) :
            (\E v \in ValueTokens :
                /\ IsPrefix(v, trim(pieces[i]))
                /\ Len(trim(pieces[i])) > Len(v)
                /\ IsWhitespace(trim(pieces[i])[Len(v) + 1])) => result.tag = "Err"

ParseSkipsNoWhitespace ==
    (Done /\ op = "parse" /\ input # <<>> /\ IsWhitespace(Head(input))) =>
        result = [tag |-> "Err", kind |-> "UnrecognizedCardValue", text |-> input]

C8_WhitespaceAtPieceBoundariesOnly ==
    /\ (Done /\ ListOp) =>
          \A t \in Padded \cup Unpadded : parse_vec_pat(t, pat) = result
    /\ WhitespaceInsideFails
    /\ ParseSkipsNoWhitespace

(***************************************************************************)
(* C8, amended.  For a delimiter that holds no whitespace, one more        *)
(* whitespace at the start or the end of a piece leaves the result of the  *)
(* list parse as it is, and for such a delimiter of one character (the "," *)
(* of parse_vec is one) so does one whitespace less.  A delimiter with     *)
(* whitespace in it takes the added whitespace for a delimiter; a longer   *)
(* delimiter may appear where a whitespace is taken away (", ,," has no    *)
(* leading ",,", and ",,," has).  The rest is as in C8.                    *)
(***************************************************************************)
HasNoWhitespace(d) == \A n \in 1..Len(d) : ~IsWhitespace(d[n])

C8_WhitespaceAtPieceBoundariesOnly_Amended ==
    /\ (Done /\ ListOp /\ HasNoWhitespace(pat)) =>
          /\ \A t \in Padded : parse_vec_pat(t, pat) = result
          /\ Len(pat) = 1 => \A t \in Unpadded : parse_vec_pat(t, pat) = result
    /\ WhitespaceInsideFails
    /\ ParseSkipsNoWhitespace

\* "AS, 10H": a piece with whitespace before it has been parsed to its card
C8_Witness ==
    /\ Done /\ ListOp
    /\ pat = <<",">>
    /\ input = <<"A", "S", ",", " ", "1", "0", "H">>
    /\ result = [tag |-> "Ok", cards |-> <<new(VA, Spades), new(VT, Hearts)>>]

====
